---- MODULE Spec2Model ----
(***************************************************************************)
(* Chunk-based two-tier memory manager (HybridPSClient).                   *)
(*                                                                         *)
(* The orchestrator (client/client.py) is modelled from its source.  The   *)
(* collaborators it imports (HybridPSManager, ChunkList, Chunk,            *)
(* ChunkTensorIndex, getsizeof) are modelled from the specification,      *)
(* sections 4.1 - 4.3.                                                     *)
(***************************************************************************)
EXTENDS Integers, Sequences, FiniteSets, TLC

VARIABLES
    chunk_list,          \* ChunkList: chunk_id -> chunk
    chunk_tensor_index,  \* ChunkTensorIndex: tensor_id -> chunk_id
    used_mem,            \* HybridPSManager: reserved bytes per device
    max_mem,             \* HybridPSManager: capacity per device
    params,              \* the torch Parameters and the attributes attached to them
    ps_id,               \* HybridPSClient.ps_id
    next_chunk_id,       \* ChunkList: identifier of the next chunk created
    default_chunk_size,  \* HybridPSClient.default_chunk_size
    default_device,      \* device on which ChunkList creates a chunk
    shadow,              \* history: tensor_id -> value last stored in a live tensor
    last_err,            \* history: what the last call raised ("ok" if nothing)
    pc                   \* phase of the concrete scenario (0 outside of it)

vars == <<chunk_list, chunk_tensor_index, used_mem, max_mem, params, ps_id,
          next_chunk_id, default_chunk_size, default_device, shadow,
          last_err, pc>>

(***************************************************************************)
(* Bounds of the model.                                                    *)
(***************************************************************************)
MaxChunks == 3      \* chunks ever created
MaxVal == 1         \* values a caller writes are 1..MaxVal (0 is a fresh buffer)
MaxNumel == 3       \* elements of a tensor allocated on its own
MaxTensors == 4     \* tensors allocated on their own

Devices == {"cpu", "cuda"}
NoneId == -1

FREE == "FREE"
HOLD == "HOLD"
COMPUTE == "COMPUTE"
UNINIT == "UNINIT"

DATA == "DATA"
GRAD == "GRAD"

OK == "ok"
NotManaged == "NotManaged"
AttributeError == "AttributeError"
AssertionError == "AssertionError"
CapacityExceeded == "CapacityExceeded"
InsufficientEvictableMemory == "InsufficientEvictableMemory"
UnsatisfiableAllocation == "UnsatisfiableAllocation"
DuplicateBinding == "DuplicateBinding"

Max(a, b) == IF a >= b THEN a ELSE b

RECURSIVE SumSeq(_)
SumSeq(q) == IF q = <<>> THEN 0 ELSE Head(q) + SumSeq(Tail(q))

Range(q) == {q[i] : i \in 1..Len(q)}

\* A local variable of a handler: v is computed once and named in F.
With(v, F(_)) == F(v)

(***************************************************************************)
(* The mutable state of one client, bundled so that a handler is a         *)
(* composition of functions of the state.                                  *)
(***************************************************************************)
State == [cl |-> chunk_list, idx |-> chunk_tensor_index, used |-> used_mem,
          ps |-> params, ps_id |-> ps_id, ncid |-> next_chunk_id]

\* Result of a call: the state it leaves, its error ("ok" if none), and what it did.
Ret(s, err) == [s |-> s, err |-> err]

(***************************************************************************)
(* helper.getsizeof: bytes per element of a dtype.                         *)
(***************************************************************************)
getsizeof(dtype) ==
    CASE dtype = "float" -> 4
      [] dtype = "half" -> 2
      [] OTHER -> 1

(***************************************************************************)
(* HybridPSManager: the device memory registry (section 4.1).              *)
(***************************************************************************)
available_mem(s, dev) == max_mem[dev] - s.used[dev]

\* Fault model: a registry that never refuses a reservation.
mgr_fits_unchecked(s, dev, bytes) == TRUE

mgr_fits(s, dev, bytes) == s.used[dev] + bytes <= max_mem[dev]

\* reserve: fails with CapacityExceeded when it would overflow the device.
mgr_add(s, dev, bytes) ==
    IF mgr_fits(s, dev, bytes)
    THEN Ret([s EXCEPT !.used[dev] = @ + bytes], OK)
    ELSE Ret(s, CapacityExceeded)

mgr_delete(s, dev, bytes) == [s EXCEPT !.used[dev] = @ - bytes]

(***************************************************************************)
(* Chunk (section 3): tensor ranges packed one after the other.            *)
(***************************************************************************)
chunk_bytes(c) == c.capacity * getsizeof(c.dtype)

chunk_used(c) == SumSeq([i \in 1..Len(c.ranges) |-> c.ranges[i].len])

HAS_COMPUTE(c) == \E i \in 1..Len(c.ranges) : c.ranges[i].status = COMPUTE

ALL_FREE(c) == \A i \in 1..Len(c.ranges) : c.ranges[i].status = FREE

chunk_tids(c) == {c.ranges[i].tid : i \in 1..Len(c.ranges)}

\* tensor_info_list.set_status(tensor_id, status)
set_status(s, cid, tid, status) ==
    [s EXCEPT !.cl[cid].ranges =
        [i \in 1..Len(@) |-> IF @[i].tid = tid
                             THEN [@[i] EXCEPT !.status = status]
                             ELSE @[i]]]

range_status(s, cid, tid) ==
    LET c == s.cl[cid]
        hits == {i \in 1..Len(c.ranges) : c.ranges[i].tid = tid}
    IN IF hits = {} THEN UNINIT
       ELSE c.ranges[CHOOSE i \in hits : \A j \in hits : i <= j].status

\* Recency markers are read only through their order, so they are kept as
\* ranks: 0 for a chunk never touched, 1..n for the touched ones, oldest first.
rank_in(cl, cid) ==
    IF cl[cid].recency = 0 THEN 0
    ELSE Cardinality({o \in DOMAIN cl : cl[o].recency > 0
                                        /\ cl[o].recency <= cl[cid].recency})

normalise(cl) == [cid \in DOMAIN cl |-> [cl[cid] EXCEPT !.recency = rank_in(cl, cid)]]

newest(cl) == Cardinality({o \in DOMAIN cl : cl[o].recency > 0})

\* Fault model: a touch that records nothing.
touch_skipped(s, cid) == s

\* Chunk.touch: the chunk becomes the most recently used one.
touch(s, cid) ==
    [s EXCEPT !.cl = normalise([s.cl EXCEPT ![cid].recency = newest(s.cl) + 1])]

\* The cells of the chunk's payload that back tensor tid.
tensor_cells(c, tid) ==
    LET hits == {i \in 1..Len(c.ranges) : c.ranges[i].tid = tid}
        r == c.ranges[CHOOSE i \in hits : \A j \in hits : i <= j]
    IN [k \in 1..r.len |-> c.payload[r.offset + k]]

write_cells(c, tid, v) ==
    LET hits == {i \in 1..Len(c.ranges) : c.ranges[i].tid = tid}
        r == c.ranges[CHOOSE i \in hits : \A j \in hits : i <= j]
    IN [c EXCEPT !.payload =
           [k \in 1..Len(@) |-> IF k > r.offset /\ k <= r.offset + r.len
                                THEN v ELSE @[k]]]

(***************************************************************************)
(* ChunkTensorIndex (section 4.3).                                         *)
(***************************************************************************)
tensor_id_to_chunk_id(s, tid) ==
    IF tid \in DOMAIN s.idx THEN s.idx[tid] ELSE NoneId

chunk_tensors(s, cid) == {tid \in DOMAIN s.idx : s.idx[tid] = cid}

\* register: fails with DuplicateBinding if the tensor already has a chunk.
add_tensor(s, tid, cid) ==
    IF tid \in DOMAIN s.idx
    THEN Ret(s, DuplicateBinding)
    ELSE Ret([s EXCEPT !.idx = (tid :> cid) @@ @], OK)

(***************************************************************************)
(* ChunkList (section 4.2).                                                *)
(***************************************************************************)
\* Fault model: the oldest chunk of the dtype is tried.
first_chunk_of(s, dtype) ==
    LET same == {cid \in DOMAIN s.cl : s.cl[cid].dtype = dtype}
    IN IF same = {} THEN NoneId
       ELSE CHOOSE cid \in same : \A other \in same : cid <= other

\* The most recently created chunk of the dtype, or NoneId.
last_chunk_of(s, dtype) ==
    LET same == {cid \in DOMAIN s.cl : s.cl[cid].dtype = dtype}
    IN IF same = {} THEN NoneId
       ELSE CHOOSE cid \in same : \A other \in same : other <= cid

\* Fault model: every new chunk has the default size.
new_chunk_capacity_default_only(numel) == default_chunk_size

new_chunk_capacity(numel) == Max(default_chunk_size, numel)

append_range(c, tid, numel) ==
    [c EXCEPT !.ranges = Append(@, [tid |-> tid, offset |-> chunk_used(c),
                                    len |-> numel, status |-> HOLD])]

\* allocate(num_elements, dtype, tensor_id) -> (chunk_id, range)
ChunkList_allocate(s, numel, dtype, tid) ==
    LET lastc == last_chunk_of(s, dtype)
    IN IF lastc # NoneId
          /\ chunk_used(s.cl[lastc]) + numel <= s.cl[lastc].capacity
       THEN [s |-> [s EXCEPT !.cl[lastc] = append_range(@, tid, numel)],
             err |-> OK, cid |-> lastc]
       ELSE LET cap == new_chunk_capacity(numel)
                rsv == mgr_add(s, default_device, cap * getsizeof(dtype))
                c == [capacity |-> cap, dtype |-> dtype,
                      device |-> default_device,
                      ranges |-> <<[tid |-> tid, offset |-> 0, len |-> numel,
                                    status |-> HOLD]>>,
                      recency |-> 0,
                      payload |-> [k \in 1..cap |-> 0]]
            IN IF rsv.err # OK
               THEN [s |-> s, err |-> rsv.err, cid |-> NoneId]
               ELSE [s |-> [rsv.s EXCEPT !.cl = (s.ncid :> c) @@ @,
                                         !.ncid = @ + 1],
                     err |-> OK, cid |-> s.ncid]

\* Chunks that may be moved off dev: resident there, no COMPUTE range.
evictable(s, dev) ==
    {cid \in DOMAIN s.cl : s.cl[cid].device = dev /\ ~HAS_COMPUTE(s.cl[cid])}

\* Fault model: the most recently touched candidate first.
mru_first(s, cands) ==
    CHOOSE cid \in cands : \A other \in cands :
        \/ s.cl[cid].recency > s.cl[other].recency
        \/ s.cl[cid].recency = s.cl[other].recency /\ cid >= other

\* Least recently touched first; chunks never touched in creation order.
lru_first(s, cands) ==
    CHOOSE cid \in cands : \A other \in cands :
        \/ s.cl[cid].recency < s.cl[other].recency
        \/ s.cl[cid].recency = s.cl[other].recency /\ cid <= other

RECURSIVE accumulate_victims(_, _, _, _)
accumulate_victims(s, cands, need, acc) ==
    IF need <= 0 THEN [err |-> OK, moved_list |-> acc]
    ELSE IF cands = {}
         THEN [err |-> InsufficientEvictableMemory, moved_list |-> <<>>]
         ELSE LET cid == lru_first(s, cands)
              IN accumulate_victims(s, cands \ {cid},
                                    need - chunk_bytes(s.cl[cid]),
                                    Append(acc, cid))

\* select_eviction_victims(need_bytes, target_tier)
chunk_to_move_out_for_room_making(s, size_in_bytes, target_device) ==
    accumulate_victims(s, evictable(s, target_device), size_in_bytes, <<>>)

\* reclaim_dead_chunks: drop every ALL_FREE chunk, its reservation and its
\* index entries.
RECURSIVE release_all(_, _, _)
release_all(s, cl, dead) ==
    IF dead = {} THEN s
    ELSE LET cid == CHOOSE c \in dead : TRUE
         IN release_all(mgr_delete(s, cl[cid].device, chunk_bytes(cl[cid])),
                        cl, dead \ {cid})

\* Fault model: reclamation that leaves the index entries behind.
delete_free_chunks_keeping_index(s) ==
    LET dead == {cid \in DOMAIN s.cl : ALL_FREE(s.cl[cid])}
    IN [release_all(s, s.cl, dead) EXCEPT
          !.cl = normalise([cid \in DOMAIN s.cl \ dead |-> s.cl[cid]])]

delete_free_chunks(s) ==
    LET dead == {cid \in DOMAIN s.cl : ALL_FREE(s.cl[cid])}
        s1 == release_all(s, s.cl, dead)
    IN [s1 EXCEPT
          !.cl = normalise([cid \in DOMAIN s.cl \ dead |-> s.cl[cid]]),
          !.idx = [tid \in {t \in DOMAIN s.idx : s.idx[t] \notin dead}
                     |-> s.idx[tid]]]

(***************************************************************************)
(* Chunk.move(param_data_dict, param_grad_dict, device): copies the        *)
(* payload, moves the reservation and re-points the handles of the         *)
(* tensors bound to the chunk.                                             *)
(***************************************************************************)
\* Fault model: a move that leaves the handles on the old buffer.
rebind_skipped(s, cid, dev) == s

rebind(s, cid, dev) ==
    [s EXCEPT !.ps =
        [p \in DOMAIN @ |->
            LET d == @[p].ps_data_id \in chunk_tensors(s, cid)
                g == @[p].ps_grad_id \in chunk_tensors(s, cid)
            IN [@[p] EXCEPT
                  !.ps_data_tensor = IF d THEN dev ELSE @,
                  !.data = IF d /\ @.k = "ps" THEN [k |-> "ps", dev |-> dev] ELSE @,
                  !.ps_grad_tensor = IF g THEN dev ELSE @]]]

moved_payload(c) == c.payload

Chunk_move(s, cid, dev) ==
    LET c == s.cl[cid]
        rsv == mgr_add(s, dev, chunk_bytes(c))
    IN IF rsv.err # OK THEN Ret(s, rsv.err)
       ELSE LET s1 == mgr_delete(rsv.s, c.device, chunk_bytes(c))
                s2 == [s1 EXCEPT !.cl[cid].device = dev,
                                 !.cl[cid].payload = moved_payload(c)]
            IN Ret(rebind(s2, cid, dev), OK)

(***************************************************************************)
(* HybridPSClient (client/client.py).                                      *)
(***************************************************************************)
\* Fault model: every parameter passes for a managed one.
is_ps_param_any(s, p) == TRUE

\* is_ps_param: hasattr(parameter, 'ps_data_id')
is_ps_param(s, p) == s.ps[p].ps_data_id # NoneId

tensor_id_of(s, p, access_type) ==
    IF access_type = DATA THEN s.ps[p].ps_data_id ELSE s.ps[p].ps_grad_id

handle_of(s, p, access_type) ==
    IF access_type = DATA THEN s.ps[p].ps_data_tensor ELSE s.ps[p].ps_grad_tensor

\* get_chunk_id: NoneId when the tensor has not been allocated to any chunk.
get_chunk_id(s, p, access_type) ==
    tensor_id_to_chunk_id(s, tensor_id_of(s, p, access_type))

\* Fault model: the counter is set back instead of incremented.
generate_id_reused(s) == [s EXCEPT !.ps_id = 0]

\* generate_id
generate_id(s) == [s EXCEPT !.ps_id = @ + 1]

other_device(target_device) == IF target_device = "cuda" THEN "cpu" ELSE "cuda"

\* Fault model: a move that does nothing.
chunk_move_skipped(s, chunk_id, device) == Ret(s, OK)

\* chunk_move: nothing to do when the chunk is already on the device.
chunk_move(s, chunk_id, device) ==
    IF s.cl[chunk_id].device # device
    THEN Chunk_move(s, chunk_id, device)
    ELSE Ret(s, OK)

\* Fault model: the victims are selected but none is moved.
move_out_nothing(s, moved_list, new_device) == Ret(s, OK)

\* for idx in moved_list: self.chunk_move(idx, new_device)
RECURSIVE move_out(_, _, _)
move_out(s, moved_list, new_device) ==
    IF moved_list = <<>> THEN Ret(s, OK)
    ELSE With(chunk_move(s, Head(moved_list), new_device), LAMBDA r :
            IF r.err # OK THEN r
            ELSE move_out(r.s, Tail(moved_list), new_device))

\* Fault model: the fatal test with <= in place of <.
too_big_for_inclusive(target_device, need_bytes) == max_mem[target_device] <= need_bytes

\* if max_mem < need_bytes: raise RuntimeError
too_big_for(target_device, need_bytes) == max_mem[target_device] < need_bytes

\* Fault model: the early return only for a strictly negative deficit.
enough_room_strict(extra_need_bytes) == extra_need_bytes < 0

\* if extra_need_bytes <= 0: return
enough_room(extra_need_bytes) == extra_need_bytes <= 0

\* prepare_device(target_device, need_bytes)
prepare_device(s, target_device, need_bytes) ==
    IF too_big_for(target_device, need_bytes)
    THEN [s |-> s, err |-> UnsatisfiableAllocation, scanned |-> FALSE,
          moved_list |-> <<>>]
    ELSE LET extra_need_bytes == need_bytes - available_mem(s, target_device)
         IN IF enough_room(extra_need_bytes)
            THEN [s |-> s, err |-> OK, scanned |-> FALSE, moved_list |-> <<>>]
            ELSE With(chunk_to_move_out_for_room_making(
                          s, extra_need_bytes, target_device), LAMBDA sel :
                    IF sel.err # OK
                    THEN [s |-> s, err |-> sel.err, scanned |-> TRUE,
                          moved_list |-> <<>>]
                    ELSE move_out(s, sel.moved_list, other_device(target_device))
                         @@ [scanned |-> TRUE, moved_list |-> sel.moved_list])

RECURSIVE numel_of(_)
numel_of(shape) == IF shape = <<>> THEN 1 ELSE Head(shape) * numel_of(Tail(shape))

\* new_tensor(shape, data_type, tensor_id, chunk_tensor_index)
new_tensor(s, shape, data_type, tensor_id) ==
    With(ChunkList_allocate(s, numel_of(shape), data_type, tensor_id), LAMBDA a :
      IF a.err # OK THEN [s |-> s, err |-> a.err, cid |-> NoneId]
      ELSE LET b == add_tensor(a.s, tensor_id, a.cid)
           IN IF b.err # OK THEN [s |-> a.s, err |-> b.err, cid |-> NoneId]
              ELSE [s |-> b.s, err |-> OK, cid |-> a.cid])

\* The handle new_tensor returns is a view of the chunk's payload.
bind_handle(s, p, access_type, cid) ==
    IF access_type = DATA
    THEN [s EXCEPT !.ps[p].ps_data_tensor = s.cl[cid].device]
    ELSE [s EXCEPT !.ps[p].ps_grad_tensor = s.cl[cid].device]

NoGhost == [scanned |-> FALSE, moved_list |-> <<>>, need |-> 0, trans |-> {},
            cid |-> NoneId, stored |-> {}, reclaimed |-> FALSE]

Out(s, err, g) == [s |-> s, err |-> err, g |-> g]

\* Fault model: room is made on the compute device but the chunk stays.
admit_without_move(s, chunk_id, compute_device) ==
    prepare_device(s, compute_device, chunk_bytes(s.cl[chunk_id]))

\* Fault model: the failure of prepare_device is dropped and the move tried.
admit_ignoring_failure(s, chunk_id, compute_device) ==
    With(prepare_device(s, compute_device, chunk_bytes(s.cl[chunk_id])), LAMBDA pd :
      chunk_move(pd.s, chunk_id, compute_device)
      @@ [scanned |-> pd.scanned, moved_list |-> pd.moved_list])

\* Lines 161-166 of access: admission on the compute device, then the move.
admit(s, chunk_id, compute_device) ==
    With(prepare_device(s, compute_device, chunk_bytes(s.cl[chunk_id])), LAMBDA pd :
      IF pd.err # OK THEN pd
      ELSE chunk_move(pd.s, chunk_id, compute_device)
           @@ [scanned |-> pd.scanned, moved_list |-> pd.moved_list])

\* Fault model: param.data is left as it is.
dummy_data_skipped(s, p, dev) == s

\* if param.data_status != PSTensorStatus.COMPUTE: param.data = torch.zeros(
\*     param.ps_shape, dtype=param.dtype, device=param.ps_grad_tensor.device)
dummy_data(s, p, dev) ==
    IF s.ps[p].data_status # COMPUTE
    THEN [s EXCEPT !.ps[p].data = [k |-> "dummy", dev |-> dev]]
    ELSE s

\* Lines 170-199 of access: the statuses and the caller's views.
mark_compute(s, p, access_type, chunk_id) ==
    LET tid == tensor_id_of(s, p, access_type)
        dev == handle_of(s, p, access_type)
    IN IF access_type = DATA
       THEN Ret(set_status(
                  [s EXCEPT !.ps[p].data_status = COMPUTE,
                            !.ps[p].data = [k |-> "ps", dev |-> dev]],
                  chunk_id, tid, COMPUTE), OK)
       ELSE LET s1 == [s EXCEPT !.ps[p].grad_status = COMPUTE]
                s2 == dummy_data(s1, p, dev)
            IN IF s2.ps[p].data.dev # dev
               THEN Ret(s2, AssertionError)
               ELSE Ret(set_status([s2 EXCEPT !.ps[p].grad = "ps"],
                                   chunk_id, tid, COMPUTE), OK)

\* access(param, access_type, compute_device)
access(s, p, access_type, compute_device) ==
    IF ~is_ps_param(s, p) THEN Out(s, NotManaged, NoGhost)
    ELSE IF tensor_id_of(s, p, access_type) = NoneId
    THEN Out(s, AttributeError, NoGhost)
    ELSE
    LET tid == tensor_id_of(s, p, access_type)
        cid0 == get_chunk_id(s, p, access_type)
        t1 == IF cid0 = NoneId THEN {<<tid, UNINIT, HOLD>>} ELSE {}
    IN
    With(IF cid0 = NoneId
         THEN new_tensor(s, s.ps[p].ps_shape, s.ps[p].dtype, tid)
         ELSE [s |-> s, err |-> OK, cid |-> cid0], LAMBDA nt :
    IF nt.err # OK THEN Out(nt.s, nt.err, NoGhost)
    ELSE
    With(IF cid0 = NoneId THEN bind_handle(nt.s, p, access_type, nt.cid) ELSE s,
         LAMBDA s1 :
    LET chunk_id == nt.cid
        current_device == handle_of(s1, p, access_type)
        need == chunk_bytes(s1.cl[chunk_id])
    IN
    With(IF compute_device # current_device
         THEN admit(s1, chunk_id, compute_device)
         ELSE [s |-> s1, err |-> OK, scanned |-> FALSE, moved_list |-> <<>>],
         LAMBDA ad :
    LET g1 == [scanned |-> ad.scanned, moved_list |-> ad.moved_list,
               need |-> IF compute_device # current_device THEN need ELSE 0,
               trans |-> t1, cid |-> chunk_id, stored |-> {},
               reclaimed |-> FALSE]
    IN IF ad.err # OK THEN Out(ad.s, ad.err, g1)
       ELSE
       With(touch(ad.s, chunk_id), LAMBDA s3 :
       With(mark_compute(s3, p, access_type, chunk_id), LAMBDA mk :
       LET before == range_status(s3, chunk_id, tid)
           t2 == IF mk.err = OK /\ before # COMPUTE
                 THEN {<<tid, before, COMPUTE>>} ELSE {}
       IN Out(mk.s, mk.err, [g1 EXCEPT !.trans = t1 \cup t2]))))))

\* Fault model: a release that reclaims nothing.
release_without_reclaim(s) == s

\* Line 235 of release.
reclaim_after_release(s) == delete_free_chunks(s)

\* access_data(param, compute_device)
access_data(s, p, compute_device) == access(s, p, DATA, compute_device)

\* access_grad(param, compute_device)
access_grad(s, p, compute_device) == access(s, p, GRAD, compute_device)

\* Fault model: the status is recorded on the parameter although the tensor
\* has no chunk.
unbound_release_recording(s, p, access_type, reset_to_status) ==
    IF access_type = DATA
    THEN [s EXCEPT !.ps[p].data_status = reset_to_status]
    ELSE [s EXCEPT !.ps[p].grad_status = reset_to_status]

\* if chunk_id is None: return
unbound_release(s, p, access_type, reset_to_status) == s

\* release(param, access_type, reset_to_status)
release(s, p, access_type, reset_to_status) ==
    IF tensor_id_of(s, p, access_type) = NoneId
    THEN Out(s, AttributeError, NoGhost)
    ELSE
    LET tid == tensor_id_of(s, p, access_type)
        chunk_id == get_chunk_id(s, p, access_type)
    IN IF chunk_id = NoneId
       THEN Out(unbound_release(s, p, access_type, reset_to_status), OK, NoGhost)
       ELSE
       LET before == range_status(s, chunk_id, tid)
           s1 == set_status(s, chunk_id, tid, reset_to_status)
           s2 == IF access_type = DATA
                 THEN [s1 EXCEPT
                         !.ps[p].data = [k |-> "dummy", dev |-> @.dev],
                         !.ps[p].data_status = reset_to_status]
                 ELSE [s1 EXCEPT !.ps[p].grad = "none",
                                 !.ps[p].grad_status = reset_to_status]
       IN Out(reclaim_after_release(s2), OK,
              [NoGhost EXCEPT
                 !.cid = chunk_id,
                 !.reclaimed = TRUE,
                 !.trans = IF before # reset_to_status
                           THEN {<<tid, before, reset_to_status>>} ELSE {}])

\* The reset status of a call that supplies none.
Unset == "unset"

\* Fault model: FREE as the default reset status.
reset_or_free(reset_to_status) ==
    IF reset_to_status = Unset THEN FREE ELSE reset_to_status

\* reset_to_status: PSTensorStatus = PSTensorStatus.HOLD
reset_or_default(reset_to_status) ==
    IF reset_to_status = Unset THEN HOLD ELSE reset_to_status

\* release_data(param, reset_to_status)
release_data(s, p, reset_to_status) ==
    release(s, p, DATA, reset_or_default(reset_to_status))

\* release_grad(param, reset_to_status)
release_grad(s, p, reset_to_status) ==
    release(s, p, GRAD, reset_or_default(reset_to_status))

\* _init_ps_param: attach the shape, the statuses and fresh identifiers.
_init_ps_param(s, p) ==
    IF is_ps_param(s, p) THEN s
    ELSE LET s1 == generate_id([s EXCEPT !.ps[p].data_status = FREE,
                                         !.ps[p].grad_status = FREE])
             s2 == [s1 EXCEPT !.ps[p].ps_data_id = s1.ps_id,
                              !.ps[p].ps_data_tensor = "none"]
             s3 == generate_id(s2)
         IN IF s.ps[p].requires_grad
            THEN [s3 EXCEPT !.ps[p].ps_grad_id = s3.ps_id,
                            !.ps[p].ps_grad_tensor = "none"]
            ELSE s2

\* What param.data holds: the caller's initial values, or a one-element
\* zero buffer once released.
data_numel(pr) == IF pr.data.k = "dummy" THEN 1 ELSE numel_of(pr.ps_shape)

data_value(pr) == IF pr.data.k = "orig" THEN pr.init_val ELSE 0

\* Fault model: a registration that does not copy param.data.
copied_value_dropped(pr) == 0

\* param.ps_data_tensor.copy_(one_dim_param.view(param.ps_shape))
copied_value(pr) == data_value(pr)

\* _convert_to_ps_data: allocate the tensor and copy param.data into it.
_convert_to_ps_data(s, p) ==
    LET pr == s.ps[p]
        tid == pr.ps_data_id
        v == copied_value(pr)
    IN
    With(new_tensor(s, pr.ps_shape, pr.dtype, tid), LAMBDA nt :
    IF nt.err # OK THEN Out(nt.s, nt.err, NoGhost)
    ELSE
    With(bind_handle(nt.s, p, DATA, nt.cid), LAMBDA s1 :
    IF data_numel(pr) # numel_of(pr.ps_shape)
    THEN Out(s1, "RuntimeError", [NoGhost EXCEPT !.cid = nt.cid,
                                    !.trans = {<<tid, UNINIT, HOLD>>}])
    ELSE Out([s1 EXCEPT
                !.cl[nt.cid] = write_cells(@, tid, v),
                !.ps[p].data = [k |-> "ps", dev |-> s1.cl[nt.cid].device],
                !.ps[p].data_status = HOLD],
             OK, [NoGhost EXCEPT !.cid = nt.cid,
                    !.trans = {<<tid, UNINIT, HOLD>>},
                    !.stored = {<<tid, data_value(pr)>>}])))

\* _convert_to_ps_grad: the same for param.grad, when there is one.
_convert_to_ps_grad(s, p) ==
    LET pr == s.ps[p]
        tid == pr.ps_grad_id
    IN IF pr.grad = "none" THEN Out(s, OK, NoGhost)
       ELSE IF tid = NoneId THEN Out(s, AttributeError, NoGhost)
       ELSE
       With(new_tensor(s, pr.ps_shape, pr.dtype, tid), LAMBDA nt :
       IF nt.err # OK THEN Out(nt.s, nt.err, NoGhost)
       ELSE Out([bind_handle(nt.s, p, GRAD, nt.cid) EXCEPT
                   !.ps[p].grad = "ps", !.ps[p].grad_status = HOLD],
                OK, [NoGhost EXCEPT !.cid = nt.cid,
                       !.trans = {<<tid, UNINIT, HOLD>>}]))

\* register_param(src_param)
register_param(s, p) ==
    With(_convert_to_ps_data(_init_ps_param(s, p), p), LAMBDA d :
    IF d.err # OK THEN d
    ELSE With(_convert_to_ps_grad(d.s, p), LAMBDA g :
           Out(g.s, g.err, [d.g EXCEPT !.trans = @ \cup g.g.trans])))

(***************************************************************************)
(* register_module.  A module is its sequence of parameters, in the order  *)
(* of module.parameters(); the client's module field may also be None.     *)
(***************************************************************************)
NoModule == [none |-> TRUE, parameters |-> <<>>]

Module(q) == [none |-> FALSE, parameters |-> q]

\* for param in module.parameters(recurse=True): self._init_ps_param(param)
RECURSIVE init_ps_params(_, _)
init_ps_params(s, q) ==
    IF q = <<>> THEN s
    ELSE init_ps_params(_init_ps_param(s, Head(q)), Tail(q))

\* What a sequence of calls did: the transitions and the copies of each.
Both(g, h) == [h EXCEPT !.trans = @ \cup g.trans, !.stored = @ \cup g.stored]

\* for param in module.parameters(recurse=True): self._convert_to_ps_data(param)
RECURSIVE convert_to_ps_data_all(_, _, _)
convert_to_ps_data_all(s, q, g) ==
    IF q = <<>> THEN Out(s, OK, g)
    ELSE With(_convert_to_ps_data(s, Head(q)), LAMBDA r :
           IF r.err # OK THEN Out(r.s, r.err, Both(g, r.g))
           ELSE convert_to_ps_data_all(r.s, Tail(q), Both(g, r.g)))

\* for param in module.parameters(recurse=True): self._convert_to_ps_grad(param)
RECURSIVE convert_to_ps_grad_all(_, _, _)
convert_to_ps_grad_all(s, q, g) ==
    IF q = <<>> THEN Out(s, OK, g)
    ELSE With(_convert_to_ps_grad(s, Head(q)), LAMBDA r :
           IF r.err # OK THEN Out(r.s, r.err, Both(g, r.g))
           ELSE convert_to_ps_grad_all(r.s, Tail(q), Both(g, r.g)))

\* for n, p in self.module.named_parameters():
\*     self.release_grad(p, PSTensorStatus.FREE)
RECURSIVE release_grads(_, _, _)
release_grads(s, q, g) ==
    IF q = <<>> THEN Out(s, OK, g)
    ELSE With(release_grad(s, Head(q), FREE), LAMBDA r :
           IF r.err # OK THEN Out(r.s, r.err, Both(g, r.g))
           ELSE release_grads(r.s, Tail(q), Both(g, r.g)))

\* Fault model: the gradients are left as the conversion made them.
release_all_grad_skipped(s, module, g) == Out(s, OK, g)

\* release_all_grad: nothing when the client has no module.
release_all_grad(s, module, g) ==
    IF module.none THEN Out(s, OK, g)
    ELSE release_grads(s, module.parameters, g)

\* register_module(module), called on a client whose module field is cur.
\* The result carries the module field the call leaves.
register_module(s, cur, module) ==
    IF module.none
    THEN [module |-> cur] @@ release_all_grad(s, cur, NoGhost)
    ELSE
    [module |-> module] @@
    With(convert_to_ps_data_all(init_ps_params(s, module.parameters),
                                module.parameters, NoGhost), LAMBDA d :
    IF d.err # OK THEN d
    ELSE With(convert_to_ps_grad_all(d.s, module.parameters, d.g), LAMBDA c :
    IF c.err # OK THEN c
    ELSE release_all_grad(c.s, module, c.g)))

(***************************************************************************)
(* fp16/fp16util.py: the two helpers that copy between the model           *)
(* parameters and their master copies through a client, flat_master false. *)
(***************************************************************************)
\* Fault model: the model gradient is released to HOLD.
model_grad_reset_hold == HOLD

\* client.release_grad(model_p, PSTensorStatus.FREE)
model_grad_reset == FREE

\* The status each helper releases the model's and the master's tensor to.
fp16_reset(fn, who) ==
    IF fn = "model_grads_to_master_grads" /\ who = "model"
    THEN model_grad_reset ELSE HOLD

fp16_kind(fn) == IF fn = "model_grads_to_master_grads" THEN GRAD ELSE DATA

\* multi_tensor_scale(model_grad -> master_grad, 1.0) and
\* model.data.copy_(master.data): the cells of one tensor are written into the
\* other's.
fp16_copy(s, from_tid, to_tid) ==
    LET v == tensor_cells(s.cl[s.idx[from_tid]], from_tid)[1]
    IN [s EXCEPT !.cl[s.idx[to_tid]] = write_cells(@, to_tid, v)]

(***************************************************************************)
(* The state machine: one action per call of the client's interface.       *)
(***************************************************************************)
Commit(r) ==
    /\ r.s.ncid <= MaxChunks
    /\ chunk_list' = r.s.cl
    /\ chunk_tensor_index' = r.s.idx
    /\ used_mem' = r.s.used
    /\ params' = r.s.ps
    /\ ps_id' = r.s.ps_id
    /\ next_chunk_id' = r.s.ncid
    /\ last_err' = r.err
    /\ UNCHANGED <<max_mem, default_chunk_size, default_device>>

Forget(sh, tids) == [t \in DOMAIN sh \ tids |-> sh[t]]

\* The value stored in a tensor, who stored it, and the device its chunk was
\* on at the time.
Stored(tid, v, by, s) ==
    tid :> [v |-> v, by |-> by, dev |-> s.cl[s.idx[tid]].device]

RECURSIVE Remember(_, _, _)
Remember(sh, stored, s) ==
    IF stored = {} THEN sh
    ELSE LET e == CHOOSE x \in stored : TRUE
         IN Remember(Stored(e[1], e[2], "copy", s) @@ Forget(sh, {e[1]}),
                     stored \ {e}, s)

Registered(r) ==
    /\ Commit(r)
    /\ shadow' = Remember(shadow, r.g.stored, r.s)

Released(r, tid, reset_to_status) ==
    /\ Commit(r)
    /\ shadow' = IF r.g.cid # NoneId /\ reset_to_status = FREE
                 THEN Forget(shadow, {tid})
                 ELSE shadow

\* register_param on a parameter the client does not manage yet.
RegisterParam(p) ==
    /\ ~is_ps_param(State, p)
    /\ Registered(register_param(State, p))
    /\ UNCHANGED pc

Access(p, access_type, compute_device) ==
    /\ Commit(access(State, p, access_type, compute_device))
    /\ UNCHANGED <<shadow, pc>>

Release(p, access_type, reset_to_status) ==
    /\ Released(release(State, p, access_type, reset_to_status),
                tensor_id_of(State, p, access_type), reset_to_status)
    /\ UNCHANGED pc

\* The caller writes v through param.data while the data tensor is in use;
\* the write lands in the chunk when the view is on the chunk's buffer.
WriteData(p, v) ==
    LET pr == params[p]
        tid == pr.ps_data_id
        cid == chunk_tensor_index[tid]
    IN /\ is_ps_param(State, p)
       /\ pr.data_status = COMPUTE
       /\ pr.data.k = "ps"
       /\ tid \in DOMAIN chunk_tensor_index
       /\ chunk_list' = IF pr.data.dev = chunk_list[cid].device
                        THEN [chunk_list EXCEPT ![cid] = write_cells(@, tid, v)]
                        ELSE chunk_list
       /\ shadow' = Stored(tid, v, "write", State) @@ Forget(shadow, {tid})
       /\ last_err' = OK
       /\ UNCHANGED <<chunk_tensor_index, used_mem, max_mem, params, ps_id,
                      next_chunk_id, default_chunk_size, default_device, pc>>

NewParam(shape, dtype, requires_grad, grad, v) ==
    [ps_shape |-> shape, dtype |-> dtype, requires_grad |-> requires_grad,
     init_val |-> v, ps_data_id |-> NoneId, ps_grad_id |-> NoneId,
     data_status |-> "none", grad_status |-> "none",
     ps_data_tensor |-> "none", ps_grad_tensor |-> "none",
     data |-> [k |-> "orig", dev |-> "cpu"], grad |-> grad]

\* HybridPSClient.__init__
Fresh ==
    /\ chunk_list = <<>>
    /\ chunk_tensor_index = <<>>
    /\ used_mem = [d \in Devices |-> 0]
    /\ ps_id = -1
    /\ next_chunk_id = 0
    /\ default_device \in Devices
    /\ shadow = <<>>
    /\ last_err = OK

\* Two parameters: one with a gradient, whose two tensors share a chunk of 8
\* bytes, and one of three elements in a chunk of 12 bytes.  The accelerator
\* holds either exactly the first chunk, or exactly the second.
Init ==
    /\ Fresh
    /\ max_mem \in {[cpu |-> 20, cuda |-> 8], [cpu |-> 20, cuda |-> 12]}
    /\ params = (1 :> NewParam(<<1>>, "float", TRUE, "orig", MaxVal + 1))
             @@ (2 :> NewParam(<<3, 1>>, "float", FALSE, "none", MaxVal + 1))
    /\ default_chunk_size = 2
    /\ pc = 0

Next ==
    \/ \E p \in DOMAIN params : RegisterParam(p)
    \/ \E p \in DOMAIN params, k \in {DATA, GRAD}, d \in Devices :
         Access(p, k, d)
    \/ \E p \in DOMAIN params, k \in {DATA, GRAD}, st \in {HOLD, FREE} :
         Release(p, k, st)

Spec == Init /\ [][Next]_vars

NextData ==
    \/ Next
    \/ \E p \in DOMAIN params, v \in 1..MaxVal : WriteData(p, v)

\* New chunks are created on the host, and each chunk fits on the accelerator
\* alone: both chunks move between the devices and evict each other.
InitData == Init /\ max_mem["cuda"] = 12 /\ default_device = "cpu"

SpecData == InitData /\ [][NextData]_vars

\* register_param on a parameter the client already manages.
ReRegisterParam(p) ==
    /\ is_ps_param(State, p)
    /\ Registered(register_param(State, p))
    /\ UNCHANGED pc

NextReg ==
    \/ Next
    \/ \E p \in DOMAIN params : ReRegisterParam(p)

SpecReg == InitData /\ [][NextReg]_vars

\* Allocation on its own: tensors of one to MaxNumel elements of two dtypes
\* are given fresh ids and allocated one after the other.
DTypes == {"float", "half"}

InitAlloc ==
    /\ Fresh
    /\ max_mem = [cpu |-> 24, cuda |-> 24]
    /\ params = <<>>
    /\ default_chunk_size = 2
    /\ pc = 0

\* new_tensor(shape, data_type, self.generate_id(), chunk_tensor_index)
NewTensor(numel, dtype) ==
    /\ ps_id + 1 < MaxTensors
    /\ With(generate_id(State), LAMBDA s1 :
            Commit(new_tensor(s1, <<numel>>, dtype, s1.ps_id)))
    /\ UNCHANGED <<shadow, pc>>

NextAlloc == \E numel \in 1..MaxNumel, dtype \in DTypes : NewTensor(numel, dtype)

SpecAlloc == InitAlloc /\ [][NextAlloc]_vars

\* The fp16 helpers: two half-precision model parameters and their float
\* master copies, all with gradients, are registered in the order model,
\* master; then the helpers are called any number of times, in any order.
\* The model tensors share one chunk of 8 bytes and the master tensors one
\* of 16; the accelerator holds both, or only the larger one.
Pairs == <<[model |-> 1, master |-> 2], [model |-> 3, master |-> 4]>>

Helpers == {"model_grads_to_master_grads", "master_params_to_model_params"}

InitFp16 ==
    /\ Fresh
    /\ max_mem \in {[cpu |-> 24, cuda |-> 24], [cpu |-> 24, cuda |-> 16]}
    /\ params = [i \in 1..4 |->
                    IF i \in {1, 3}
                    THEN NewParam(<<1>>, "half", TRUE, "orig", MaxVal + 1)
                    ELSE NewParam(<<1>>, "float", TRUE, "orig", MaxVal)]
    /\ default_chunk_size = 4
    /\ pc = [fn |-> "register", i |-> 1, step |-> 0, last |-> "none"]

Raised == [fn |-> "raised", i |-> 0, step |-> 0, last |-> "none"]

Fp16Register ==
    /\ pc.fn = "register"
    /\ With(register_param(State, pc.i), LAMBDA r :
          /\ Registered(r)
          /\ pc' = IF r.err # OK THEN Raised
                   ELSE IF pc.i < 4 THEN [pc EXCEPT !.i = @ + 1]
                   ELSE [pc EXCEPT !.fn = "idle", !.i = 0])

\* A helper is called: the loop starts at the first pair.
Fp16Call(fn) ==
    /\ pc.fn = "idle"
    /\ pc' = [pc EXCEPT !.fn = fn, !.i = 1, !.step = 1]
    /\ UNCHANGED <<chunk_list, chunk_tensor_index, used_mem, max_mem, params,
                   ps_id, next_chunk_id, default_chunk_size, default_device,
                   shadow, last_err>>

\* client.access_grad / access_data of the model (step 1) and of the master
\* (step 2) parameter on cuda:0.
Fp16Access ==
    /\ pc.fn \in Helpers
    /\ pc.step \in {1, 2}
    /\ LET p == IF pc.step = 1 THEN Pairs[pc.i].model ELSE Pairs[pc.i].master
       IN With(IF fp16_kind(pc.fn) = GRAD THEN access_grad(State, p, "cuda")
                                         ELSE access_data(State, p, "cuda"),
               LAMBDA r :
                 /\ Commit(r)
                 /\ pc' = IF r.err # OK THEN Raised
                          ELSE [pc EXCEPT !.step = @ + 1])
    /\ UNCHANGED shadow

Fp16Copy ==
    /\ pc.fn \in Helpers
    /\ pc.step = 3
    /\ LET k == fp16_kind(pc.fn)
           mo == tensor_id_of(State, Pairs[pc.i].model, k)
           ma == tensor_id_of(State, Pairs[pc.i].master, k)
           from_tid == IF k = GRAD THEN mo ELSE ma
           to_tid == IF k = GRAD THEN ma ELSE mo
           s1 == fp16_copy(State, from_tid, to_tid)
           v == tensor_cells(s1.cl[s1.idx[to_tid]], to_tid)[1]
       IN /\ chunk_list' = s1.cl
          /\ shadow' = Stored(to_tid, v, "write", s1) @@ Forget(shadow, {to_tid})
    /\ pc' = [pc EXCEPT !.step = 4]
    /\ last_err' = OK
    /\ UNCHANGED <<chunk_tensor_index, used_mem, max_mem, params, ps_id,
                   next_chunk_id, default_chunk_size, default_device>>

\* client.release_grad / release_data of the model (step 4) and of the master
\* (step 5) parameter; after the last pair the helper returns.
Fp16Release ==
    /\ pc.fn \in Helpers
    /\ pc.step \in {4, 5}
    /\ LET who == IF pc.step = 4 THEN "model" ELSE "master"
           p == IF pc.step = 4 THEN Pairs[pc.i].model ELSE Pairs[pc.i].master
           k == fp16_kind(pc.fn)
           st == fp16_reset(pc.fn, who)
       IN With(IF k = GRAD THEN release_grad(State, p, st)
                           ELSE release_data(State, p, st),
               LAMBDA r :
                 /\ Released(r, tensor_id_of(State, p, k), st)
                 /\ pc' = IF r.err # OK THEN Raised
                          ELSE IF pc.step = 4 THEN [pc EXCEPT !.step = 5]
                          ELSE IF pc.i < Len(Pairs)
                               THEN [pc EXCEPT !.i = @ + 1, !.step = 1]
                               ELSE [fn |-> "idle", i |-> 0, step |-> 0,
                                     last |-> pc.fn])

NextFp16 ==
    \/ Fp16Register
    \/ \E fn \in Helpers : Fp16Call(fn)
    \/ Fp16Access
    \/ Fp16Copy
    \/ Fp16Release

SpecFp16 == InitFp16 /\ [][NextFp16]_vars

\* Modules over two parameters: the first has a gradient at registration;
\* the second has none yet, or does not require one.  A client registers
\* modules, accesses their tensors on the accelerator and frees them, in any
\* order; pc holds the client's module field and whether register_module was
\* the last call.
Modules == {Module(<<1>>), Module(<<2>>), Module(<<1, 2>>)}

InitMod ==
    /\ Fresh
    /\ default_device = "cpu"
    /\ max_mem = [cpu |-> 24, cuda |-> 8]
    /\ \E requires_grad \in BOOLEAN :
         params = (1 :> NewParam(<<1>>, "float", TRUE, "orig", MaxVal + 1))
               @@ (2 :> NewParam(<<2>>, "float", requires_grad, "none",
                                 MaxVal + 1))
    /\ default_chunk_size = 2
    /\ pc = [module |-> NoModule, last |-> "none"]

RegisterModule(module) ==
    With(register_module(State, pc.module, module), LAMBDA r :
       /\ Registered(r)
       /\ pc' = [module |-> r.module, last |-> "register_module"])

ModAccess(p, access_type, compute_device) ==
    /\ Commit(access(State, p, access_type, compute_device))
    /\ pc' = [pc EXCEPT !.last = "other"]
    /\ UNCHANGED shadow

ModRelease(p, access_type, reset_to_status) ==
    /\ Released(release(State, p, access_type, reset_to_status),
                tensor_id_of(State, p, access_type), reset_to_status)
    /\ pc' = [pc EXCEPT !.last = "other"]

NextMod ==
    \/ \E module \in Modules \cup {NoModule} : RegisterModule(module)
    \/ \E p \in DOMAIN params, k \in {DATA, GRAD} : ModAccess(p, k, "cuda")
    \/ \E p \in DOMAIN params, k \in {DATA, GRAD} : ModRelease(p, k, FREE)

SpecMod == InitMod /\ [][NextMod]_vars

\* Two devices of 12 bytes each: the two chunks (8 and 12 bytes) fit on no
\* single device, and neither device has room for both.
InitTight ==
    /\ Fresh
    /\ max_mem = [cpu |-> 12, cuda |-> 12]
    /\ params = (1 :> NewParam(<<1>>, "float", TRUE, "orig", MaxVal + 1))
                 @@ (2 :> NewParam(<<3, 1>>, "float", FALSE, "none", MaxVal + 1))
    /\ default_chunk_size = 2
    /\ pc = 0

SpecTight == InitTight /\ [][Next]_vars

(***************************************************************************)
(* The concrete scenario: accelerator of 100 units, host of 1000, default  *)
(* chunk size 10, elements of one byte.  Fifteen one-element tensors are   *)
(* allocated, accessed on the accelerator and released to HOLD; then a     *)
(* tensor of 95 elements is allocated and accessed on the accelerator.     *)
(***************************************************************************)
InitC7 ==
    /\ Fresh
    /\ max_mem = [cuda |-> 100, cpu |-> 1000]
    /\ params = [i \in 1..16 |->
                    IF i <= 15 THEN NewParam(<<1>>, "uint8", FALSE, "none", 1)
                    ELSE NewParam(<<95>>, "uint8", FALSE, "none", 1)]
    /\ default_chunk_size = 10
    /\ pc = [reg |-> 0, acc |-> 0, rel |-> 0, req |-> 0]

C7Allocate ==
    /\ pc.reg < 15
    /\ Registered(register_param(State, pc.reg + 1))
    /\ pc' = [pc EXCEPT !.reg = @ + 1]

C7Access ==
    /\ pc.reg = 15
    /\ pc.acc < 15
    /\ Commit(access(State, pc.acc + 1, DATA, "cuda"))
    /\ shadow' = shadow
    /\ pc' = [pc EXCEPT !.acc = @ + 1]

C7Release ==
    /\ pc.rel < pc.acc
    /\ Released(release(State, pc.rel + 1, DATA, HOLD),
                tensor_id_of(State, pc.rel + 1, DATA), HOLD)
    /\ pc' = [pc EXCEPT !.rel = @ + 1]

C7Request ==
    /\ pc.rel = 15
    /\ pc.req = 0
    /\ Registered(register_param(State, 16))
    /\ pc' = [pc EXCEPT !.req = 1]

C7RequestAccess ==
    /\ pc.req = 1
    /\ last_err = OK
    /\ Commit(access(State, 16, DATA, "cuda"))
    /\ shadow' = shadow
    /\ pc' = [pc EXCEPT !.req = 2]

NextC7 == C7Allocate \/ C7Access \/ C7Release \/ C7Request \/ C7RequestAccess

SpecC7 == InitC7 /\ [][NextC7]_vars

(***************************************************************************)
(* Properties.                                                             *)
(***************************************************************************)
Kinds == {DATA, GRAD}

Resets == {HOLD, FREE}

\* The chunks holding a COMPUTE range of a tensor other than tid.
PinnedByOther(tid) ==
    {cid \in DOMAIN chunk_list :
        \E i \in 1..Len(chunk_list[cid].ranges) :
            /\ chunk_list[cid].ranges[i].status = COMPUTE
            /\ chunk_list[cid].ranges[i].tid # tid}

\* C1: while a tensor is COMPUTE, no access of another tensor selects its
\* chunk as an eviction victim or changes the device of its chunk.
C1_NoEvictWhileCompute ==
    \A p \in DOMAIN params, k \in Kinds, d \in Devices :
        LET r == access(State, p, k, d)
        IN \A cid \in PinnedByOther(tensor_id_of(State, p, k)) :
              /\ cid \notin Range(r.g.moved_list)
              /\ r.s.cl[cid].device = chunk_list[cid].device

\* C2: after every completed call the bytes reserved on a device are at most
\* the capacity of the device.
C2_Capacity == \A d \in Devices : used_mem[d] <= max_mem[d]

\* A chunk that was never accessed sits off the default device: it was moved
\* there as an eviction victim, and the accelerator is full.
C2_Witness ==
    /\ default_device = "cuda"
    /\ used_mem["cuda"] = max_mem["cuda"]
    /\ \E cid \in DOMAIN chunk_list :
          chunk_list[cid].device = "cpu" /\ chunk_list[cid].recency = 0

\* C3: an access that returns leaves the tensor's chunk on the compute device
\* and the tensor COMPUTE, whatever its status and its chunk's device before.
C3_AccessPost ==
    \A p \in DOMAIN params, k \in Kinds, d \in Devices :
        LET r == access(State, p, k, d)
            tid == tensor_id_of(State, p, k)
        IN r.err = OK =>
              /\ tid \in DOMAIN r.s.idx
              /\ r.s.cl[r.s.idx[tid]].device = d
              /\ range_status(r.s, r.s.idx[tid], tid) = COMPUTE

\* An access has returned with the tensor on the device that is not the one
\* its chunk was created on.
C3_Witness ==
    /\ last_err = OK
    /\ \E p \in DOMAIN params :
          /\ params[p].data_status = COMPUTE
          /\ params[p].ps_data_id \in DOMAIN chunk_tensor_index
          /\ LET cid == chunk_tensor_index[params[p].ps_data_id]
             IN /\ chunk_list[cid].device # default_device
                /\ range_status(State, cid, params[p].ps_data_id) = COMPUTE

\* C4: a value stored in a tensor (copied at registration or written through
\* an accessed view) is what the tensor holds, and what the view of an access
\* reads, until the tensor is released to FREE, whatever moves its chunk made.
C4_RoundTrip ==
    \A tid \in DOMAIN shadow :
        /\ tid \in DOMAIN chunk_tensor_index
        /\ LET c == chunk_list[chunk_tensor_index[tid]]
           IN /\ \A i \in DOMAIN tensor_cells(c, tid) :
                    tensor_cells(c, tid)[i] = shadow[tid].v
              /\ \A p \in DOMAIN params :
                    (params[p].ps_data_id = tid /\ params[p].data_status = COMPUTE)
                    => params[p].data = [k |-> "ps", dev |-> c.device]

\* A written value is read by an access on the other device.
C4_Witness ==
    \E p \in DOMAIN params :
        /\ params[p].ps_data_id \in DOMAIN shadow
        /\ params[p].data_status = COMPUTE
        /\ LET tid == params[p].ps_data_id
           IN /\ shadow[tid].by = "write"
              /\ shadow[tid].dev # chunk_list[chunk_tensor_index[tid]].device
              /\ params[p].data.dev = chunk_list[chunk_tensor_index[tid]].device

\* C5: the release that sets the last range of a chunk FREE removes the chunk
\* from the chunk list, deletes its index entries and lowers the reservation
\* of its device by the bytes of the chunk; nothing else changes.
C5_Reclamation ==
    \A p \in DOMAIN params, k \in Kinds :
        LET r == release(State, p, k, FREE)
            tid == tensor_id_of(State, p, k)
            cid == r.g.cid
        IN (/\ r.err = OK
            /\ cid # NoneId
            /\ \A i \in 1..Len(chunk_list[cid].ranges) :
                  \/ chunk_list[cid].ranges[i].tid = tid
                  \/ chunk_list[cid].ranges[i].status = FREE)
           => /\ DOMAIN r.s.cl = DOMAIN chunk_list \ {cid}
              /\ \A t \in DOMAIN r.s.idx : r.s.idx[t] # cid
              /\ DOMAIN r.s.idx = DOMAIN chunk_tensor_index
                                     \ chunk_tensors(State, cid)
              /\ r.s.used = [used_mem EXCEPT ![chunk_list[cid].device] =
                                @ - chunk_bytes(chunk_list[cid])]
              /\ \A o \in DOMAIN r.s.cl :
                    [r.s.cl[o] EXCEPT !.recency = 0]
                       = [chunk_list[o] EXCEPT !.recency = 0]

\* A chunk that was created is gone, with its index entries.
C5_Witness ==
    /\ last_err = OK
    /\ \E cid \in 0..(next_chunk_id - 1) :
          /\ cid \notin DOMAIN chunk_list
          /\ \A t \in DOMAIN chunk_tensor_index : chunk_tensor_index[t] # cid
    /\ \E d \in Devices : used_mem[d] > 0

\* C6: prepare_device for more bytes than the device has fails with
\* UnsatisfiableAllocation, scans nothing, moves nothing and changes no
\* reservation; for exactly the capacity of the device it does not.
C6_FatalPath ==
    \A target_device \in Devices,
       need_bytes \in 0..(Max(max_mem["cpu"], max_mem["cuda"]) + 1) :
        LET r == prepare_device(State, target_device, need_bytes)
        IN /\ need_bytes > max_mem[target_device]
                => /\ r.err = UnsatisfiableAllocation
                   /\ ~r.scanned
                   /\ r.moved_list = <<>>
                   /\ r.s = State
           /\ need_bytes = max_mem[target_device]
                => r.err # UnsatisfiableAllocation

\* An access failed on the fatal path while a chunk of exactly the capacity
\* of the accelerator is resident there.
C6_Witness ==
    /\ last_err = UnsatisfiableAllocation
    /\ \E cid \in DOMAIN chunk_list :
          /\ chunk_list[cid].device = "cuda"
          /\ chunk_bytes(chunk_list[cid]) = max_mem["cuda"]

C8_Occupancy ==
    \A cid \in DOMAIN chunk_list :
        LET c == chunk_list[cid]
            r == c.ranges
        IN /\ chunk_used(c) <= c.capacity
           /\ \A i \in 1..Len(r) :
                 r[i].len > 0 /\ r[i].offset >= 0
                 /\ r[i].offset + r[i].len <= c.capacity
           /\ \A i, j \in 1..Len(r) :
                 i # j => \/ r[i].offset + r[i].len <= r[j].offset
                          \/ r[j].offset + r[j].len <= r[i].offset

\* A chunk larger than the default size, and a chunk of two ranges of which
\* one is FREE.
C8_Witness ==
    /\ \E cid \in DOMAIN chunk_list :
          chunk_list[cid].capacity > default_chunk_size
    /\ \E cid \in DOMAIN chunk_list :
          /\ Len(chunk_list[cid].ranges) = 2
          /\ \E i \in 1..2 : chunk_list[cid].ranges[i].status = FREE

Allowed ==
    {<<UNINIT, HOLD>>, <<HOLD, COMPUTE>>, <<FREE, COMPUTE>>,
     <<COMPUTE, HOLD>>, <<COMPUTE, FREE>>, <<HOLD, FREE>>}

AllAllowed(trans) == \A e \in trans : <<e[2], e[3]>> \in Allowed

\* C9: every change of a tensor's status made by a registration, an access
\* or a release is one of the six transitions of the status machine.
C9_Transitions ==
    \A p \in DOMAIN params :
        /\ ~is_ps_param(State, p) => AllAllowed(register_param(State, p).g.trans)
        /\ \A k \in Kinds, d \in Devices :
              AllAllowed(access(State, p, k, d).g.trans)
        /\ \A k \in Kinds, st \in Resets :
              AllAllowed(release(State, p, k, st).g.trans)

\* C10 (as stated): a tensor bound to a chunk stays bound to a chunk of the
\* chunk list in every later state.
C10_AsStated ==
    [][\A tid \in DOMAIN chunk_tensor_index :
          /\ tid \in DOMAIN chunk_tensor_index'
          /\ chunk_tensor_index'[tid] \in DOMAIN chunk_list']_vars

\* C10 (amended): every binding of the index resolves to a chunk of the chunk
\* list, and a binding stays, to the same chunk, until a release leaves every
\* range of that chunk FREE; that release removes the chunk and the binding.
C10_Binding ==
    [][/\ \A tid \in DOMAIN chunk_tensor_index' :
             chunk_tensor_index'[tid] \in DOMAIN chunk_list'
       /\ \A tid \in DOMAIN chunk_tensor_index :
             \/ /\ tid \in DOMAIN chunk_tensor_index'
                /\ chunk_tensor_index'[tid] = chunk_tensor_index[tid]
             \/ /\ tid \notin DOMAIN chunk_tensor_index'
                /\ chunk_tensor_index[tid] \notin DOMAIN chunk_list'
                /\ \A p \in DOMAIN params :
                      /\ params[p].ps_data_id = tid => params'[p].data_status = FREE
                      /\ params[p].ps_grad_id = tid => params'[p].grad_status = FREE]_vars

\* A tensor that was bound has lost its binding: its chunk was reclaimed.
C10_Witness ==
    /\ last_err = OK
    /\ \E p \in DOMAIN params :
          /\ is_ps_param(State, p)
          /\ params[p].data_status = FREE
          /\ params[p].ps_data_id \notin DOMAIN chunk_tensor_index

\* C11: every range of a chunk has an index entry pointing to that chunk, and
\* every index entry points to a chunk of the chunk list that holds a range
\* of the tensor; so a tensor is in at most one chunk.
C11_IndexConsistency ==
    /\ \A cid \in DOMAIN chunk_list : \A tid \in chunk_tids(chunk_list[cid]) :
          /\ tid \in DOMAIN chunk_tensor_index
          /\ chunk_tensor_index[tid] = cid
    /\ \A tid \in DOMAIN chunk_tensor_index :
          /\ chunk_tensor_index[tid] \in DOMAIN chunk_list
          /\ tid \in chunk_tids(chunk_list[chunk_tensor_index[tid]])

\* C12: prepare_device for no more bytes than the device has available
\* returns at once: no victim selection, no chunk moved, no chunk's device and
\* no reservation changed.
C12_FastPath ==
    \A target_device \in Devices,
       need_bytes \in 0..Max(max_mem["cpu"], max_mem["cuda"]) :
        need_bytes <= available_mem(State, target_device) =>
            LET r == prepare_device(State, target_device, need_bytes)
            IN /\ r.err = OK
               /\ ~r.scanned
               /\ r.moved_list = <<>>
               /\ r.s.cl = State.cl
               /\ r.s.used = State.used
               /\ r.s = State

\* The only chunk ever created was admitted to the non-default device, which
\* was empty: prepare_device returned on the fast path and the chunk moved.
C12_Witness ==
    /\ last_err = OK
    /\ next_chunk_id = 1
    /\ 0 \in DOMAIN chunk_list
    /\ chunk_list[0].device # default_device
    /\ used_mem[default_device] = 0
    /\ available_mem(State, default_device) = max_mem[default_device]

\* C13: prepare_device with a positive deficit moves every chunk that
\* chunk_to_move_out_for_room_making returns for (deficit, target) to the other
\* device, moves no other chunk, and every moved chunk was on the target
\* device before the call.
C13_EvictsSelection ==
    \A target_device \in Devices,
       need_bytes \in 1..Max(max_mem["cpu"], max_mem["cuda"]) :
        LET extra_need_bytes == need_bytes - available_mem(State, target_device)
            sel == chunk_to_move_out_for_room_making(
                       State, extra_need_bytes, target_device)
            r == prepare_device(State, target_device, need_bytes)
        IN (/\ need_bytes <= max_mem[target_device]
            /\ extra_need_bytes > 0
            /\ sel.err = OK)
           => /\ r.moved_list = sel.moved_list
              /\ \A cid \in DOMAIN State.cl :
                    IF cid \in Range(sel.moved_list)
                    THEN /\ State.cl[cid].device = target_device
                         /\ cid \in DOMAIN r.s.cl
                         /\ r.s.cl[cid].device = other_device(target_device)
                    ELSE /\ cid \in DOMAIN r.s.cl
                         /\ r.s.cl[cid].device = State.cl[cid].device

\* C14: the victim list is in ascending recency, is a prefix of the eligible
\* chunks (on the target device, no COMPUTE range) in that order, and stops at
\* the first prefix whose capacity covers need_bytes.
C14_LRUPrefix ==
    \A target_device \in Devices,
       size_in_bytes \in 1..Max(max_mem["cpu"], max_mem["cuda"]) :
        LET sel == chunk_to_move_out_for_room_making(
                       State, size_in_bytes, target_device)
            l == sel.moved_list
            eligible == {cid \in DOMAIN chunk_list :
                            /\ chunk_list[cid].device = target_device
                            /\ \A i \in 1..Len(chunk_list[cid].ranges) :
                                  chunk_list[cid].ranges[i].status # COMPUTE}
            bytes(q) == SumSeq([i \in 1..Len(q) |-> chunk_bytes(chunk_list[q[i]])])
        IN sel.err = OK =>
              /\ Len(l) >= 1
              /\ Range(l) \subseteq eligible
              /\ \A i, j \in 1..Len(l) : i < j => l[i] # l[j]
              /\ \A i, j \in 1..Len(l) :
                    i < j => chunk_list[l[i]].recency <= chunk_list[l[j]].recency
              /\ \A v \in Range(l), c \in eligible \ Range(l) :
                    chunk_list[v].recency <= chunk_list[c].recency
              /\ bytes(l) >= size_in_bytes
              /\ bytes(SubSeq(l, 1, Len(l) - 1)) < size_in_bytes

\* Two eligible chunks on one device, touched at different times, and a need
\* that the older one alone covers: the selection must choose between them.
C14_Witness ==
    \E a, b \in DOMAIN chunk_list :
        /\ a # b
        /\ chunk_list[a].device = chunk_list[b].device
        /\ ~HAS_COMPUTE(chunk_list[a])
        /\ ~HAS_COMPUTE(chunk_list[b])
        /\ 0 < chunk_list[a].recency
        /\ chunk_list[a].recency < chunk_list[b].recency
        /\ chunk_to_move_out_for_room_making(
               State, chunk_bytes(chunk_list[a]), chunk_list[a].device).moved_list
           = <<a>>

\* C15: when the chunks without a COMPUTE range on the compute device have
\* less capacity together than the deficit, the access fails with
\* InsufficientEvictableMemory, after one selection attempt that moved nothing
\* and changed nothing.
C15_InsufficientPropagates ==
    \A p \in DOMAIN params, k \in Kinds, d \in Devices :
        LET chunk_id == get_chunk_id(State, p, k)
            bound == /\ is_ps_param(State, p)
                     /\ tensor_id_of(State, p, k) # NoneId
                     /\ chunk_id # NoneId
            need == chunk_bytes(chunk_list[chunk_id])
            deficit == need - (max_mem[d] - used_mem[d])
            free_able == {cid \in DOMAIN chunk_list :
                             /\ chunk_list[cid].device = d
                             /\ ~HAS_COMPUTE(chunk_list[cid])}
            room == SumSeq([i \in 1..MaxChunks |->
                              IF (i - 1) \in free_able
                              THEN chunk_bytes(chunk_list[i - 1]) ELSE 0])
            r == access(State, p, k, d)
        IN /\ (/\ bound
               /\ chunk_list[chunk_id].device # d
               /\ need <= max_mem[d]
               /\ deficit > 0
               /\ room < deficit)
              => /\ r.err = InsufficientEvictableMemory
                 /\ r.g.scanned
                 /\ r.g.moved_list = <<>>
                 /\ r.s = State
           /\ r.err = InsufficientEvictableMemory
              => /\ r.g.scanned
                 /\ r.g.moved_list = <<>>
                 /\ \A cid \in DOMAIN chunk_list :
                       /\ cid \in DOMAIN r.s.cl
                       /\ r.s.cl[cid].device = chunk_list[cid].device

\* An access failed for want of evictable memory: the compute device holds a
\* chunk with a COMPUTE range and the requested chunk is still elsewhere.
C15_Witness ==
    /\ last_err = InsufficientEvictableMemory
    /\ \E a, b \in DOMAIN chunk_list :
          /\ chunk_list[a].device # chunk_list[b].device
          /\ HAS_COMPUTE(chunk_list[a])
          /\ chunk_bytes(chunk_list[b]) >
                max_mem[chunk_list[a].device] - used_mem[chunk_list[a].device]

\* C16: no access ends with CapacityExceeded, whether from the allocation of
\* a new chunk, the move of an eviction victim or the move of the requested
\* chunk.
C16_NoCapacityExceeded ==
    \A p \in DOMAIN params, k \in Kinds, d \in Devices :
        access(State, p, k, d).err # CapacityExceeded

\* C17 (as stated): every release that returns has run the reclamation of
\* ALL_FREE chunks, also for a tensor that has no chunk.
C17_AsStated ==
    \A p \in DOMAIN params, k \in Kinds, st \in Resets :
        LET r == release(State, p, k, st)
        IN r.err = OK => r.g.reclaimed

\* C17: a release of a tensor bound to a chunk runs the reclamation before it
\* returns; a release of a tensor without a chunk returns at once, reclaims
\* nothing and changes nothing; no ALL_FREE chunk exists after a release
\* returns, nor in any reachable state.
C17_ReclaimAfterRelease ==
    /\ \A cid \in DOMAIN chunk_list : ~ALL_FREE(chunk_list[cid])
    /\ \A p \in DOMAIN params, k \in Kinds, st \in Resets :
          LET r == release(State, p, k, st)
          IN r.err = OK =>
                /\ r.g.reclaimed <=> get_chunk_id(State, p, k) # NoneId
                /\ ~r.g.reclaimed => r.s = State
                /\ \A cid \in DOMAIN r.s.cl : ~ALL_FREE(r.s.cl[cid])

\* Both tensors of a parameter were released to FREE and their chunk was
\* reclaimed, while the chunk of the other parameter remains: a release of
\* either tensor now finds no chunk.
C17_Witness ==
    /\ last_err = OK
    /\ \E p \in DOMAIN params :
          /\ params[p].ps_data_id # NoneId
          /\ params[p].ps_grad_id # NoneId
          /\ get_chunk_id(State, p, DATA) = NoneId
          /\ get_chunk_id(State, p, GRAD) = NoneId
          /\ release(State, p, DATA, FREE).err = OK
    /\ chunk_list # <<>>

\* C18: a release of a bound tensor leaves the tensor with the reset status
\* it was given, HOLD or FREE; release_data and release_grad called without
\* a reset status leave it HOLD.
C18_ResetStatus ==
    \A p \in DOMAIN params, k \in Kinds, st \in Resets \cup {Unset} :
        LET tid == tensor_id_of(State, p, k)
            chunk_id == get_chunk_id(State, p, k)
            want == IF st = Unset THEN HOLD ELSE st
            r == IF k = DATA THEN release_data(State, p, st)
                 ELSE release_grad(State, p, st)
            status == IF k = DATA THEN r.s.ps[p].data_status
                      ELSE r.s.ps[p].grad_status
        IN (tid # NoneId /\ chunk_id # NoneId) =>
              /\ r.err = OK
              /\ status = want
              /\ IF chunk_id \in DOMAIN r.s.cl
                 THEN range_status(r.s, chunk_id, tid) = want
                 ELSE /\ want = FREE
                      /\ tensor_id_to_chunk_id(r.s, tid) = NoneId
              /\ st \in Resets => r = release(State, p, k, st)

\* A data tensor that was accessed and then released to HOLD: its chunk has
\* been touched, the range is HOLD and the parameter's data is the dummy.
C18_Witness ==
    /\ last_err = OK
    /\ \E p \in DOMAIN params :
          /\ get_chunk_id(State, p, DATA) # NoneId
          /\ chunk_list[get_chunk_id(State, p, DATA)].recency > 0
          /\ params[p].data_status = HOLD
          /\ params[p].data.k = "dummy"
          /\ range_status(State, get_chunk_id(State, p, DATA),
                          params[p].ps_data_id) = HOLD

C20_Identifiers ==
    LET ids == {<<p, k>> \in (DOMAIN params) \X Kinds :
                   tensor_id_of(State, p, k) # NoneId}
    IN /\ generate_id(State).ps_id = ps_id + 1
       /\ generate_id(State).ps_id > ps_id
       /\ \A x \in ids : tensor_id_of(State, x[1], x[2]) \in 0..ps_id
       /\ \A x, y \in ids :
             x # y => tensor_id_of(State, x[1], x[2])
                        # tensor_id_of(State, y[1], y[2])
       /\ Cardinality(ids) = ps_id + 1
       /\ \A p \in DOMAIN params :
             is_ps_param(State, p) =>
                /\ params[p].ps_data_id # params[p].ps_grad_id
                /\ _init_ps_param(State, p) = State
                /\ LET r == register_param(State, p)
                   IN /\ r.s.ps_id = ps_id
                      /\ \A q \in DOMAIN params :
                            /\ r.s.ps[q].ps_data_id = params[q].ps_data_id
                            /\ r.s.ps[q].ps_grad_id = params[q].ps_grad_id

\* Both parameters are managed (identifiers 0, 1 and 2 handed out) and the
\* last call was a registration of a parameter that was already managed.
C20_Witness ==
    /\ last_err = DuplicateBinding
    /\ ps_id = 2
    /\ \A p \in DOMAIN params : is_ps_param(State, p)
    /\ params[1].ps_data_id # params[1].ps_grad_id

\* C21: an access of a parameter the client does not manage fails with
\* NotManaged and leaves everything as it was: no chunk allocated, moved or
\* touched, no index entry added, no status changed.
C21_NotManaged ==
    \A p \in DOMAIN params, k \in Kinds, d \in Devices :
        params[p].ps_data_id = NoneId =>
            LET r == access(State, p, k, d)
            IN /\ r.err = NotManaged
               /\ r.s = State
               /\ r.s.cl = chunk_list
               /\ r.s.idx = chunk_tensor_index
               /\ r.s.used = used_mem
               /\ r.s.ps = params
               /\ r.g.cid = NoneId
               /\ ~r.g.scanned
               /\ r.g.moved_list = <<>>
               /\ r.g.trans = {}

\* An access of the parameter that is not managed was refused while the
\* other parameter has a chunk.
C21_Witness ==
    /\ last_err = NotManaged
    /\ chunk_list # <<>>
    /\ chunk_tensor_index # <<>>
    /\ \E p \in DOMAIN params : params[p].ps_data_id = NoneId

\* C22: registering a parameter whose data tensor already has a chunk fails
\* with DuplicateBinding and leaves the index, the chunk list, every chunk's
\* ranges and the reservations as they were.
C22_DuplicateBinding ==
    \A p \in DOMAIN params :
        (/\ params[p].ps_data_id # NoneId
         /\ params[p].ps_data_id \in DOMAIN chunk_tensor_index) =>
            LET r == register_param(State, p)
            IN /\ r.err = DuplicateBinding
               /\ r.s.idx = chunk_tensor_index
               /\ DOMAIN r.s.cl = DOMAIN chunk_list
               /\ \A cid \in DOMAIN chunk_list :
                     r.s.cl[cid].ranges = chunk_list[cid].ranges
               /\ r.s.used = used_mem

\* C23: chunk_move to the device the chunk is on changes nothing; a
\* chunk_move that returns after moving leaves the chunk on the new device
\* with the handle of every tensor bound to it there too.  Hence, in every
\* reachable state, the device of the handle of a bound tensor is the device
\* of its chunk.
C23_Rebinding ==
    LET bound == {<<p, k>> \in (DOMAIN params) \X Kinds :
                     /\ tensor_id_of(State, p, k) # NoneId
                     /\ get_chunk_id(State, p, k) # NoneId}
    IN /\ \A x \in bound :
             handle_of(State, x[1], x[2])
               = chunk_list[get_chunk_id(State, x[1], x[2])].device
       /\ \A cid \in DOMAIN chunk_list, d \in Devices :
             LET r == chunk_move(State, cid, d)
             IN IF chunk_list[cid].device = d
                THEN r.err = OK /\ r.s = State
                ELSE r.err = OK =>
                       /\ r.s.cl[cid].device = d
                       /\ \A x \in bound :
                             get_chunk_id(State, x[1], x[2]) = cid
                               => handle_of(r.s, x[1], x[2]) = d
                       /\ \A x \in bound :
                             get_chunk_id(State, x[1], x[2]) # cid
                               => handle_of(r.s, x[1], x[2])
                                    = handle_of(State, x[1], x[2])

\* A chunk that holds the data and the gradient of a parameter is on the
\* device that is not the default one, and both handles are there.
C23_Witness ==
    /\ last_err = OK
    /\ \E p \in DOMAIN params :
          /\ get_chunk_id(State, p, DATA) # NoneId
          /\ get_chunk_id(State, p, GRAD) = get_chunk_id(State, p, DATA)
          /\ chunk_list[get_chunk_id(State, p, DATA)].device # default_device
          /\ params[p].ps_data_tensor # default_device
          /\ params[p].ps_grad_tensor # default_device

\* C24: after a successful access the chunk of the accessed tensor is the
\* most recently touched chunk, strictly after every other one, so it comes
\* last among eviction candidates, whether or not it had to move.
\* chunk_move and prepare_device change no chunk's recency; release raises
\* none and keeps the order of the chunks that remain (recency is kept as a
\* rank among the chunks of the list).
C24_Touch ==
    /\ \A p \in DOMAIN params, k \in Kinds, d \in Devices :
          LET r == access(State, p, k, d)
              cid == r.g.cid
          IN r.err = OK =>
                /\ cid \in DOMAIN r.s.cl
                /\ r.s.cl[cid].recency > 0
                /\ \A o \in DOMAIN r.s.cl \ {cid} :
                      /\ r.s.cl[o].recency < r.s.cl[cid].recency
                      /\ lru_first(r.s, {o, cid}) = o
    /\ \A p \in DOMAIN params, k \in Kinds, st \in Resets :
          LET r == release(State, p, k, st)
          IN \A o, q \in DOMAIN r.s.cl :
                /\ r.s.cl[o].recency <= chunk_list[o].recency
                /\ r.s.cl[o].recency < r.s.cl[q].recency
                      <=> chunk_list[o].recency < chunk_list[q].recency
    /\ \A cid \in DOMAIN chunk_list, d \in Devices :
          LET r == chunk_move(State, cid, d)
          IN \A o \in DOMAIN r.s.cl :
                r.s.cl[o].recency = chunk_list[o].recency
    /\ \A d \in Devices, c \in DOMAIN chunk_list :
          LET r == prepare_device(State, d, chunk_bytes(chunk_list[c]))
          IN \A o \in DOMAIN r.s.cl :
                r.s.cl[o].recency = chunk_list[o].recency

\* Two chunks have been touched; the one touched last holds the tensor in
\* use and is on the default device, where it was created.
C24_Witness ==
    /\ last_err = OK
    /\ \E a, b \in DOMAIN chunk_list :
          /\ 0 < chunk_list[a].recency
          /\ chunk_list[a].recency < chunk_list[b].recency
          /\ HAS_COMPUTE(chunk_list[b])
          /\ ~HAS_COMPUTE(chunk_list[a])
          /\ chunk_list[b].device = default_device
          /\ lru_first(State, {a, b}) = a

\* C25: when prepare_device returns without error the device has at least
\* need_bytes available, so the move of the requested chunk that access makes
\* next is not refused.
C25_Admission ==
    /\ \A target_device \in Devices,
          need_bytes \in 0..Max(max_mem["cpu"], max_mem["cuda"]) :
          LET r == prepare_device(State, target_device, need_bytes)
          IN r.err = OK => available_mem(r.s, target_device) >= need_bytes
    /\ \A cid \in DOMAIN chunk_list, d \in Devices :
          chunk_list[cid].device # d =>
             LET pd == prepare_device(State, d, chunk_bytes(chunk_list[cid]))
             IN pd.err = OK =>
                   LET mv == chunk_move(pd.s, cid, d)
                   IN /\ mv.err = OK
                      /\ mv.s.cl[cid].device = d
                      /\ mv.s.used[d] <= max_mem[d]

\* The tensor in use is on the accelerator, which has no room for a second
\* chunk, and the chunk that was there before was moved to the host without
\* ever being accessed: room was made by eviction and the move fitted.
C25_Witness ==
    /\ last_err = OK
    /\ default_device = "cuda"
    /\ \E a, b \in DOMAIN chunk_list :
          /\ chunk_list[a].device = "cuda"
          /\ HAS_COMPUTE(chunk_list[a])
          /\ chunk_list[a].recency > 0
          /\ chunk_list[b].device = "cpu"
          /\ chunk_list[b].recency = 0
          /\ chunk_bytes(chunk_list[a]) + chunk_bytes(chunk_list[b])
                > max_mem["cuda"]
          /\ available_mem(State, "cuda") >= 0

\* C26: an access that fails with UnsatisfiableAllocation or
\* InsufficientEvictableMemory has changed no chunk's device, no reservation
\* and no recency, and has not marked the tensor COMPUTE.
C26_FailedAccessFrame ==
    \A p \in DOMAIN params, k \in Kinds, d \in Devices :
        LET r == access(State, p, k, d)
            status(s) == IF k = DATA THEN s.ps[p].data_status
                         ELSE s.ps[p].grad_status
        IN r.err \in {UnsatisfiableAllocation, InsufficientEvictableMemory} =>
              /\ \A cid \in DOMAIN chunk_list :
                    /\ cid \in DOMAIN r.s.cl
                    /\ r.s.cl[cid].device = chunk_list[cid].device
                    /\ r.s.cl[cid].recency = chunk_list[cid].recency
              /\ \A cid \in DOMAIN r.s.cl :
                    \A i \in 1..Len(r.s.cl[cid].ranges) :
                       (/\ r.s.cl[cid].ranges[i].tid = tensor_id_of(State, p, k)
                        /\ r.s.cl[cid].ranges[i].status = COMPUTE)
                         => /\ cid \in DOMAIN chunk_list
                            /\ chunk_list[cid].ranges = r.s.cl[cid].ranges
              /\ status(r.s) = status(State)
              /\ r.s.used = used_mem

\* C27: for every tensor bound to a chunk, the status kept on the parameter
\* (data_status, grad_status) is the status of its range in the chunk.
C27_StatusAgreement ==
    \A p \in DOMAIN params, k \in Kinds :
        (/\ tensor_id_of(State, p, k) # NoneId
         /\ get_chunk_id(State, p, k) # NoneId) =>
            range_status(State, get_chunk_id(State, p, k),
                         tensor_id_of(State, p, k))
              = (IF k = DATA THEN params[p].data_status
                 ELSE params[p].grad_status)

\* C28: a release of a tensor that has an identifier but no chunk (never
\* allocated, or its chunk was reclaimed) returns without error and changes
\* nothing: not the tensor's status, the chunk list, the index or a
\* reservation.
C28_UnboundRelease ==
    \A p \in DOMAIN params, k \in Kinds, st \in Resets :
        (/\ tensor_id_of(State, p, k) # NoneId
         /\ tensor_id_of(State, p, k) \notin DOMAIN chunk_tensor_index) =>
            LET r == release(State, p, k, st)
            IN /\ r.err = OK
               /\ r.s.ps = params
               /\ r.s.cl = chunk_list
               /\ r.s.idx = chunk_tensor_index
               /\ r.s.used = used_mem
               /\ r.s = State

\* The data tensor of a parameter was released to FREE and its chunk was
\* reclaimed, and the last call, a release, returned normally while the
\* tensor had no chunk and the other parameter's chunk was in use.
C28_Witness ==
    /\ last_err = OK
    /\ \E p \in DOMAIN params :
          /\ params[p].ps_data_id # NoneId
          /\ params[p].ps_data_id \notin DOMAIN chunk_tensor_index
          /\ params[p].data_status = FREE
          /\ params[p].data.k = "dummy"
    /\ \E cid \in DOMAIN chunk_list : HAS_COMPUTE(chunk_list[cid])

\* C29 (as stated): a gradient access while the data tensor is not COMPUTE
\* leaves the device of the data tensor's chunk unchanged.
C29_AsStated ==
    \A p \in DOMAIN params, d \in Devices :
        (/\ params[p].ps_grad_id # NoneId
         /\ params[p].data_status # COMPUTE
         /\ get_chunk_id(State, p, DATA) # NoneId) =>
            LET r == access(State, p, GRAD, d)
                dc == get_chunk_id(State, p, DATA)
            IN r.err = OK => r.s.cl[dc].device = chunk_list[dc].device

\* C29: a gradient access while the data tensor is not COMPUTE never fails on
\* the device assertion; when it returns, the gradient is COMPUTE on the
\* requested device, param.data is a zero placeholder on that device, and the
\* data tensor's status, range status and chunk binding are unchanged.  The
\* chunk of the data tensor is on the requested device if it is the
\* gradient's chunk, on the other device if it was evicted to make room, and
\* where it was otherwise.
C29_GradWithoutData ==
    \A p \in DOMAIN params, d \in Devices :
        (/\ params[p].ps_grad_id # NoneId
         /\ params[p].data_status # COMPUTE) =>
            LET r == access(State, p, GRAD, d)
                dc == get_chunk_id(State, p, DATA)
                gc == r.g.cid
            IN /\ r.err # AssertionError
               /\ r.err = OK =>
                     /\ r.s.ps[p].grad_status = COMPUTE
                     /\ r.s.ps[p].grad = "ps"
                     /\ r.s.ps[p].ps_grad_tensor = d
                     /\ r.s.cl[gc].device = d
                     /\ range_status(r.s, gc, params[p].ps_grad_id) = COMPUTE
                     /\ r.s.ps[p].data = [k |-> "dummy", dev |-> d]
                     /\ r.s.ps[p].data_status = params[p].data_status
                     /\ get_chunk_id(r.s, p, DATA) = dc
                     /\ dc # NoneId =>
                           /\ range_status(r.s, dc, params[p].ps_data_id)
                                 = range_status(State, dc, params[p].ps_data_id)
                           /\ r.s.cl[dc].device =
                                 (IF dc = gc THEN d
                                  ELSE IF dc \in Range(r.g.moved_list)
                                       THEN other_device(d)
                                       ELSE chunk_list[dc].device)

\* The gradient of a parameter is in use on the device that is not the
\* default one while its data tensor, in the same chunk, is HOLD and
\* param.data is the placeholder on that device.
C29_Witness ==
    /\ last_err = OK
    /\ \E p \in DOMAIN params :
          /\ params[p].grad_status = COMPUTE
          /\ params[p].data_status = HOLD
          /\ params[p].data = [k |-> "dummy", dev |-> other_device(default_device)]
          /\ get_chunk_id(State, p, DATA) # NoneId
          /\ get_chunk_id(State, p, DATA) = get_chunk_id(State, p, GRAD)
          /\ chunk_list[get_chunk_id(State, p, GRAD)].device # default_device

\* C30: the fp16 helpers bracket each copy with the accesses and releases of
\* one pair: at the start of a pair no tensor is COMPUTE, at the copy exactly
\* the pair's two tensors are, and never more than two tensors are COMPUTE.
\* When model_grads_to_master_grads has returned, every model gradient is
\* FREE, every master gradient is HOLD and no tensor is COMPUTE; when
\* master_params_to_model_params has returned, every data tensor is HOLD.
C30_Fp16Bracketing ==
    LET tensors == {<<p, k>> \in (DOMAIN params) \X Kinds :
                       tensor_id_of(State, p, k) # NoneId}
        status(x) == IF x[2] = DATA THEN params[x[1]].data_status
                     ELSE params[x[1]].grad_status
        in_range(x) ==
            /\ get_chunk_id(State, x[1], x[2]) # NoneId
            /\ range_status(State, get_chunk_id(State, x[1], x[2]),
                            tensor_id_of(State, x[1], x[2])) = COMPUTE
        computing == {x \in tensors : status(x) = COMPUTE \/ in_range(x)}
        returned(fn) == pc.fn = "idle" /\ pc.last = fn
    IN /\ Cardinality(computing) <= 2
       /\ (pc.fn \in Helpers /\ pc.step = 1) => computing = {}
       /\ (pc.fn \in Helpers /\ pc.step = 3) =>
             computing = {<<Pairs[pc.i].model, fp16_kind(pc.fn)>>,
                          <<Pairs[pc.i].master, fp16_kind(pc.fn)>>}
       /\ returned("model_grads_to_master_grads") =>
             /\ computing = {}
             /\ \A i \in 1..Len(Pairs) :
                   /\ params[Pairs[i].model].grad_status = FREE
                   /\ params[Pairs[i].master].grad_status = HOLD
                   /\ range_status(State,
                          get_chunk_id(State, Pairs[i].model, GRAD),
                          params[Pairs[i].model].ps_grad_id) = FREE
                   /\ range_status(State,
                          get_chunk_id(State, Pairs[i].master, GRAD),
                          params[Pairs[i].master].ps_grad_id) = HOLD
       /\ returned("master_params_to_model_params") =>
             /\ computing = {}
             /\ \A i \in 1..Len(Pairs) :
                   /\ params[Pairs[i].model].data_status = HOLD
                   /\ params[Pairs[i].master].data_status = HOLD

\* model_grads_to_master_grads has returned after master_params_to_model_params
\* had run: the model gradients are FREE, the master gradients hold the
\* value copied from the model, and the model data holds the master's.
C30_Witness ==
    /\ pc.fn = "idle"
    /\ pc.last = "model_grads_to_master_grads"
    /\ last_err = OK
    /\ \A i \in 1..Len(Pairs) :
          /\ params[Pairs[i].model].grad_status = FREE
          /\ params[Pairs[i].master].grad_status = HOLD
          /\ params[Pairs[i].model].data_status = HOLD
          /\ tensor_cells(chunk_list[get_chunk_id(State, Pairs[i].model, DATA)],
                          params[Pairs[i].model].ps_data_id)
             = tensor_cells(chunk_list[get_chunk_id(State, Pairs[i].master, DATA)],
                            params[Pairs[i].master].ps_data_id)

ModuleManaged(s, q) ==
    LET ids == {x \in Range(q) \X Kinds : tensor_id_of(s, x[1], x[2]) # NoneId}
    IN /\ \A p \in Range(q) : is_ps_param(s, p)
       /\ \A x, y \in ids :
             x # y => tensor_id_of(s, x[1], x[2]) # tensor_id_of(s, y[1], y[2])

ModuleDataHold(s, q) ==
    \A p \in Range(q) :
       /\ get_chunk_id(s, p, DATA) # NoneId
       /\ range_status(s, get_chunk_id(s, p, DATA), s.ps[p].ps_data_id) = HOLD
       /\ s.ps[p].data_status = HOLD

ModuleGradFree(s, q) ==
    \A p \in Range(q) :
       /\ s.ps[p].grad_status = FREE
       /\ s.ps[p].ps_grad_id # NoneId /\ get_chunk_id(s, p, GRAD) # NoneId
             => range_status(s, get_chunk_id(s, p, GRAD), s.ps[p].ps_grad_id)
                  = FREE

\* The tensors that are COMPUTE: by their range, or by their parameter's field.
ComputeTensors(s) ==
    {x \in (DOMAIN s.ps) \X Kinds :
        /\ tensor_id_of(s, x[1], x[2]) # NoneId
        /\ \/ IF x[2] = DATA THEN s.ps[x[1]].data_status = COMPUTE
                             ELSE s.ps[x[1]].grad_status = COMPUTE
           \/ /\ get_chunk_id(s, x[1], x[2]) # NoneId
              /\ range_status(s, get_chunk_id(s, x[1], x[2]),
                              tensor_id_of(s, x[1], x[2])) = COMPUTE}

NoFreeChunk(s) == \A c \in DOMAIN s.cl : ~ALL_FREE(s.cl[c])

\* C31 as stated: after register_module(module) returns, the module's
\* parameters are managed with distinct ids, their data tensors are bound and
\* HOLD, their gradient tensors are FREE, no tensor at all is COMPUTE, and no
\* chunk of FREE ranges only remains.
C31_AsStated ==
    \A module \in Modules :
       With(register_module(State, pc.module, module), LAMBDA r :
          r.err = OK =>
             /\ ModuleManaged(r.s, module.parameters)
             /\ ModuleDataHold(r.s, module.parameters)
             /\ ModuleGradFree(r.s, module.parameters)
             /\ ComputeTensors(r.s) = {}
             /\ NoFreeChunk(r.s))

\* C31: after register_module(module) returns, the client's module is
\* module; its parameters are managed with pairwise distinct ids; the data
\* tensor of each is bound to a chunk, its range and the parameter's field
\* HOLD; the gradient of each is FREE, in its range if it has one and in the
\* parameter's field; no chunk of FREE ranges only remains; and no tensor of
\* the module is COMPUTE.  A tensor of a parameter outside the module that
\* was COMPUTE before the call still is, and none becomes COMPUTE, so that no
\* tensor at all is COMPUTE when none was before.  The call does not return
\* for a module with a parameter that requires no gradient.  With no module
\* given, the gradients of the module registered before are FREE afterwards.
C31_RegisterModule ==
    /\ \A module \in Modules :
          With(register_module(State, pc.module, module), LAMBDA r :
             /\ r.err = OK =>
                  /\ r.module = module
                  /\ ModuleManaged(r.s, module.parameters)
                  /\ ModuleDataHold(r.s, module.parameters)
                  /\ ModuleGradFree(r.s, module.parameters)
                  /\ NoFreeChunk(r.s)
                  /\ ComputeTensors(r.s) \subseteq ComputeTensors(State)
                  /\ \A x \in ComputeTensors(r.s) :
                        x[1] \notin Range(module.parameters)
                  /\ \A x \in ComputeTensors(State) :
                        x[1] \notin Range(module.parameters)
                           => x \in ComputeTensors(r.s)
                  /\ ComputeTensors(State) = {} => ComputeTensors(r.s) = {}
             /\ (\E p \in Range(module.parameters) : ~params[p].requires_grad)
                   => r.err # OK)
    /\ With(register_module(State, pc.module, NoModule), LAMBDA r :
          r.err = OK =>
             /\ r.module = pc.module
             /\ NoFreeChunk(r.s)
             /\ ComputeTensors(r.s) \subseteq ComputeTensors(State)
             /\ ModuleGradFree(r.s, pc.module.parameters))

\* register_module of the first parameter alone has just returned, on a
\* client that had registered the second parameter before and was using its
\* data: the first parameter's data is HOLD, its gradient is FREE in the
\* chunk it shares with the data, and the second parameter's data is COMPUTE.
C31_Witness ==
    /\ pc.last = "register_module"
    /\ last_err = OK
    /\ pc.module = Module(<<1>>)
    /\ ModuleDataHold(State, <<1>>)
    /\ get_chunk_id(State, 1, GRAD) = get_chunk_id(State, 1, DATA)
    /\ range_status(State, get_chunk_id(State, 1, GRAD), params[1].ps_grad_id)
         = FREE
    /\ <<2, DATA>> \in ComputeTensors(State)

====
